---- MODULE Spec2Model ----
(***************************************************************************)
(* Model of hw/ipc_client.c: the client side of the virtio-net IPC channel *)
(* (session set-up, handshake, read dispatch, retry timer, teardown).      *)
(*                                                                         *)
(* One action per entry point the host calls: ipc_init, ipc_exit, the      *)
(* timer callback ipc_connect_to_server and the read callback ipc_reader,  *)
(* plus Tick for the passage of time.  The host event loop runs callbacks  *)
(* one at a time, so each callback is one atomic step.                     *)
(***************************************************************************)
EXTENDS Integers, Sequences, FiniteSets, TLC

\* ------------------------------------------------------------- bounds
MaxFd       == 3      \* descriptors 0..MaxFd exist
MaxInterval == 1      \* cinterval is drawn from 0..MaxInterval and WrapInterval
MaxTime     == 3000   \* the clock (ms) stops advancing here
TickMs      == 1000   \* quantum by which idle time passes
MaxAttempts == 3      \* timer callbacks modelled
MaxReads    == 2      \* read callbacks modelled
MaxQueue    == 1      \* queue indices 0..MaxQueue

\* ---------------------------------------------------------- constants
MsPerSec == 1000      \* ipc_set_connector: cinterval * 1000

FDs    == 0 .. MaxFd
Queues == 0 .. MaxQueue
RamFd  == 0           \* descriptor of the guest RAM block, when it has one

\* uint32_t arithmetic is done on 16-bit limbs, every intermediate value staying
\* below 2^31.
Limb == 2^16

\* The smallest cinterval whose product with 1000 reaches 2^32
\* (2^32 / 1000 = 2^29 / 125).
WrapInterval == (2^29 \div 125) + 1

CIntervals == (0 .. MaxInterval) \cup {WrapInterval}

VARIABLES
    cinterval,  \* vdev->cinterval
    ipc,        \* vdev->ipc: "NULL" or "node"
    node,       \* the malloc'ed ipc_node: [st, fd]
    ts,         \* vdev->ts, the retry timer: [st, pending]
    ram_fd,     \* fd of the RAM block at offset 0, -1 when there is none
    fdtab,      \* the process's descriptor table
    handler,    \* the event loop's read handler per descriptor
    link,       \* the device's link status
    now,        \* rt_clock, in ms
    faults,     \* invalid releases performed (double free, close of a closed fd)
    released,   \* how many times each resource was released by ipc_exit
    initCalled, \* ipc_init has been called
    tInit,      \* the time of the ipc_init call, -1 before it
    attempts,   \* history: one [at, due, ok] per timer callback
    nReads,     \* history: number of read callbacks
    armLog,     \* history: every [by, delay] with which the timer was armed
    linkCalls,  \* history: number of set_link_status calls, [up, down]
    last,       \* history: the last callback, [op, res, trace, notify, recv]
    peer        \* the server side: "any", or "accepting" every handshake from now on

progVars == <<cinterval, ipc, node, ts, ram_fd, fdtab, handler, link, faults, released>>
histVars == <<initCalled, tInit, attempts, nReads, armLog, linkCalls, last>>
vars == <<cinterval, ipc, node, ts, ram_fd, fdtab, handler, link, now, faults,
          released, initCalled, tInit, attempts, nReads, armLog, linkCalls, last, peer>>

\* -------------------------------------------------------- environment

\* ipc_socket(): a new socket on the lowest free descriptor, -1 when none is free.
ipc_socket(tab) ==
    IF \E f \in FDs : tab[f] = "closed"
    THEN CHOOSE f \in FDs : tab[f] = "closed" /\ \A g \in FDs : tab[g] = "closed" => f <= g
    ELSE -1

\* ipc_get_fd(c): the descriptor ipc_node_init stored in the node.
ipc_get_fd == node.fd

\* qemu_mod_timer: cancel the pending fire, if any, and schedule one at t.
qemu_mod_timer(t, at) == [t EXCEPT !.pending = {at}]

\* (cinterval * 1000) as the uint32_t product the code computes.
DelayMs(c) ==
    LET ch == c \div Limb
        cl == c % Limb
        a  == cl * MsPerSec
        hi == (ch * MsPerSec + (a \div Limb)) % Limb
        lo == a % Limb
    IN  hi * Limb + lo

\* set_link_status(vdev, link_down)
set_link_status(link_down) == IF link_down = 1 THEN "DOWN" ELSE "UP"

\* ipc_set_connector with the interval taken as milliseconds (the * 1000 left out).
ipc_set_connector_unscaled(t, c) == qemu_mod_timer(t, now + c)

\* ipc_set_connector: arm the retry timer (cinterval * 1000) ms from now.
ipc_set_connector(t, c) == qemu_mod_timer(t, now + DelayMs(c))

\* The delay, from now, of the fire scheduled on timer t (the model's record of
\* what an arming call did).
ArmedDelay(t) == (CHOOSE d \in t.pending : TRUE) - now

NoTrace == <<>>

\* What a callback that received no message records as received.
NoMsg == [ok |-> FALSE, type |-> "NONE", q |-> 0]

\* ---------------------------------------------------------- init_client

InitOutcomes == {"socket_fail", "malloc_fail", "node_init_fail", "ok"}

\* init_client under environment outcome e: the return value and what it leaves.
init_client(e) ==
    LET fd == ipc_socket(fdtab)
        opened == [fdtab EXCEPT ![fd] = "sock"]
    IN  IF ram_fd = -1
        THEN [ret |-> "-EFAULT", res |-> "no_ram", fdtab |-> fdtab, node |-> node, ipc |-> ipc]
        ELSE IF e = "socket_fail" \/ fd < 0
        THEN [ret |-> "-errno", res |-> "socket_fail", fdtab |-> fdtab, node |-> node, ipc |-> ipc]
        ELSE IF e = "malloc_fail"
        THEN [ret |-> "-EFAULT", res |-> "malloc_fail", fdtab |-> opened, node |-> node, ipc |-> ipc]
        ELSE IF e = "node_init_fail"
        THEN [ret |-> "-errno", res |-> "node_init_fail", fdtab |-> opened,
              node |-> [st |-> "freed", fd |-> -1], ipc |-> ipc]
        ELSE [ret |-> "0", res |-> "ok", fdtab |-> opened,
              node |-> [st |-> "live", fd |-> fd], ipc |-> "node"]

\* ------------------------------------------------------------- ipc_init

\* Variant: ipc_init going on to create and arm the timer after init_client
\* failed (the return at line 222 left out).
ipc_init_no_return(ci, e) ==
    /\ ~initCalled
    /\ LET r == init_client(e) IN
        /\ cinterval' = ci
        /\ fdtab' = r.fdtab
        /\ node' = r.node
        /\ ipc' = r.ipc
        /\ ts' = ipc_set_connector([st |-> "new", pending |-> {}], ci)
        /\ armLog' = armLog \cup {[by |-> "ipc_init", delay |-> ArmedDelay(ts'), ci |-> ci]}
        /\ last' = [op |-> "ipc_init", res |-> r.res, trace |-> NoTrace, notify |-> <<>>, recv |-> NoMsg]
    /\ initCalled' = TRUE
    /\ tInit' = now
    /\ UNCHANGED <<ram_fd, handler, link, now, faults, released, attempts, nReads, linkCalls>>

ipc_init(ci, e) ==
    /\ ~initCalled
    /\ LET r == init_client(e) IN
        /\ cinterval' = ci
        /\ fdtab' = r.fdtab
        /\ node' = r.node
        /\ ipc' = r.ipc
        /\ IF r.ret # "0"
           THEN /\ ts' = ts
                /\ armLog' = armLog
           ELSE /\ ts' = ipc_set_connector([st |-> "new", pending |-> {}], ci)
                /\ armLog' = armLog \cup {[by |-> "ipc_init", delay |-> ArmedDelay(ts'), ci |-> ci]}
        /\ last' = [op |-> "ipc_init", res |-> r.res, trace |-> NoTrace, notify |-> <<>>, recv |-> NoMsg]
    /\ initCalled' = TRUE
    /\ tInit' = now
    /\ UNCHANGED <<ram_fd, handler, link, now, faults, released, attempts, nReads, linkCalls>>

\* ------------------------------------------------------ connect_to_server

Outcomes == {"socket_fail", "connect_fail", "init_fail", "dup2_fail", "reconf_fail", "ok"}

\* connect_to_server with one of three slips, v:
\*   "link_up_early"   set_link_status(vdev, 0) moved before ipc_client_reconfigure
\*   "no_dup2"         the connection left on the new descriptor, the handler
\*                     registered there
\*   "err1_no_close"   err1 returning without close(fd)
connect_to_server_variant(o, v) ==
    LET fd     == ipc_socket(fdtab)
        opened == [fdtab EXCEPT ![fd] = "sock"]
        err1   == IF v = "err1_no_close" THEN opened
                  ELSE [opened EXCEPT ![fd] = "closed"]
        newfd  == IF v = "no_dup2" THEN fd ELSE ipc_get_fd
        duped  == IF v = "no_dup2" THEN [opened EXCEPT ![fd] = "conn"]
                  ELSE [opened EXCEPT ![newfd] = "conn", ![fd] = "closed"]
        err2   == [duped EXCEPT ![newfd] = "shut"]
        early  == v = "link_up_early"
        fail(ret, tab, tr) ==
            [ret |-> ret, res |-> o, fdtab |-> tab, link |-> link, handler |-> handler,
             nup |-> 0, trace |-> tr]
    IN  IF o = "socket_fail" \/ fd < 0
        THEN [ret |-> "-errno", res |-> "socket_fail", fdtab |-> fdtab, link |-> link,
              handler |-> handler, nup |-> 0, trace |-> <<"ipc_socket">>]
        ELSE IF o = "connect_fail"
        THEN fail("-EFAULT", err1, <<"ipc_socket", "ipc_connect", "close">>)
        ELSE IF o = "init_fail"
        THEN fail("-EFAULT", err1,
                  <<"ipc_socket", "ipc_connect", "ipc_client_init_sequence", "close">>)
        ELSE IF o = "dup2_fail"
        THEN fail("-EFAULT", err1,
                  <<"ipc_socket", "ipc_connect", "ipc_client_init_sequence", "dup2", "close">>)
        ELSE IF o = "reconf_fail"
        THEN [ret |-> "-EFAULT", res |-> o, fdtab |-> err2,
              link |-> IF early THEN set_link_status(0) ELSE link,
              handler |-> handler,
              nup |-> IF early THEN 1 ELSE 0,
              trace |-> IF early
                        THEN <<"ipc_socket", "ipc_connect", "ipc_client_init_sequence",
                               "dup2", "close", "set_link_up", "ipc_client_reconfigure",
                               "shutdown">>
                        ELSE <<"ipc_socket", "ipc_connect", "ipc_client_init_sequence",
                               "dup2", "close", "ipc_client_reconfigure", "shutdown">>]
        ELSE [ret |-> "0", res |-> "ok", fdtab |-> duped,
              link |-> set_link_status(0),
              handler |-> [handler EXCEPT ![newfd] = "ipc_reader"],
              nup |-> 1,
              trace |-> IF early
                        THEN <<"ipc_socket", "ipc_connect", "ipc_client_init_sequence",
                               "dup2", "close", "set_link_up", "ipc_client_reconfigure",
                               "qemu_set_fd_handler">>
                        ELSE <<"ipc_socket", "ipc_connect", "ipc_client_init_sequence",
                               "dup2", "close", "ipc_client_reconfigure", "set_link_up",
                               "qemu_set_fd_handler">>]

connect_to_server_link_up_early(o) == connect_to_server_variant(o, "link_up_early")

connect_to_server_no_dup2(o) == connect_to_server_variant(o, "no_dup2")

connect_to_server_err1_no_close(o) == connect_to_server_variant(o, "err1_no_close")

\* connect_to_server under peer/environment outcome o: the return value, the
\* descriptor table, link status and handlers it leaves, and the calls it made.
connect_to_server(o) ==
    LET fd     == ipc_socket(fdtab)
        opened == [fdtab EXCEPT ![fd] = "sock"]
        err1   == [opened EXCEPT ![fd] = "closed"]               \* close(fd)
        newfd  == ipc_get_fd
        duped  == [opened EXCEPT ![newfd] = "conn", ![fd] = "closed"]  \* dup2; close(fd)
        err2   == [duped EXCEPT ![newfd] = "shut"]               \* shutdown(newfd)
        fail(ret, tab, tr) ==
            [ret |-> ret, res |-> o, fdtab |-> tab, link |-> link, handler |-> handler,
             nup |-> 0, trace |-> tr]
    IN  IF o = "socket_fail" \/ fd < 0
        THEN [ret |-> "-errno", res |-> "socket_fail", fdtab |-> fdtab, link |-> link,
              handler |-> handler, nup |-> 0, trace |-> <<"ipc_socket">>]
        ELSE IF o = "connect_fail"
        THEN fail("-EFAULT", err1, <<"ipc_socket", "ipc_connect", "close">>)
        ELSE IF o = "init_fail"
        THEN fail("-EFAULT", err1,
                  <<"ipc_socket", "ipc_connect", "ipc_client_init_sequence", "close">>)
        ELSE IF o = "dup2_fail"
        THEN fail("-EFAULT", err1,
                  <<"ipc_socket", "ipc_connect", "ipc_client_init_sequence", "dup2", "close">>)
        ELSE IF o = "reconf_fail"
        THEN fail("-EFAULT", err2,
                  <<"ipc_socket", "ipc_connect", "ipc_client_init_sequence", "dup2", "close",
                    "ipc_client_reconfigure", "shutdown">>)
        ELSE [ret |-> "0", res |-> "ok", fdtab |-> duped,
              link |-> set_link_status(0),
              handler |-> [handler EXCEPT ![newfd] = "ipc_reader"],
              nup |-> 1,
              trace |-> <<"ipc_socket", "ipc_connect", "ipc_client_init_sequence", "dup2",
                          "close", "ipc_client_reconfigure", "set_link_up",
                          "qemu_set_fd_handler">>]

\* ------------------------------------------------- ipc_connect_to_server

\* Variant: the timer never re-armed by the callback.
retry_never(ret, t) == t

\* Variant: the timer re-armed whatever the attempt returned.
retry_always(ret, t) == ipc_set_connector(t, cinterval)

\* Variant: the timer re-armed only for the -EFAULT returns.
retry_only_on_EFAULT(ret, t) ==
    IF ret = "-EFAULT" THEN ipc_set_connector(t, cinterval) ELSE t

\* ipc_connect_to_server's use of the result: re-arm the timer when the attempt
\* failed (any non-zero return).
retry_if_failed(ret, t) ==
    IF ret # "0" THEN ipc_set_connector(t, cinterval) ELSE t

\* The timer callback: the event loop takes the due fire off the timer and
\* calls ipc_connect_to_server.
ipc_connect_to_server(o) ==
    /\ ts.st = "new"
    /\ Len(attempts) < MaxAttempts
    /\ \E due \in ts.pending :
        /\ due <= now
        /\ LET fired == [ts EXCEPT !.pending = ts.pending \ {due}]
               r == connect_to_server(o)
           IN  /\ r.res = o
               /\ fdtab' = r.fdtab
               /\ link' = r.link
               /\ handler' = r.handler
               /\ linkCalls' = [linkCalls EXCEPT !.up = @ + r.nup]
               /\ ts' = retry_if_failed(r.ret, fired)
               /\ armLog' = IF ts'.pending # {}
                            THEN armLog \cup {[by |-> "ipc_connect_to_server",
                                              delay |-> ArmedDelay(ts'), ci |-> cinterval]}
                            ELSE armLog
               /\ attempts' = Append(attempts, [at |-> now, due |-> due, ok |-> r.ret = "0"])
               /\ last' = [op |-> "ipc_connect_to_server", res |-> r.res,
                           trace |-> IF ts'.pending # {}
                                     THEN Append(r.trace, "ipc_set_connector")
                                     ELSE r.trace,
                           notify |-> <<>>, recv |-> NoMsg]
    /\ UNCHANGED <<cinterval, ipc, node, ram_fd, now, faults, released, initCalled, tInit,
                   nReads>>

\* ------------------------------------------------------------ ipc_reader

Msgs == {[ok |-> FALSE, type |-> "NONE", q |-> 0]}
        \cup [ok : {TRUE}, type : {"KICK", "OTHER"}, q : Queues]

\* Variant of the switch: the kick forwarded to queue 0 whatever curq is.
ipc_reader_dispatch_queue_0(m) ==
    IF m.type = "KICK" THEN <<0>> ELSE <<>>

\* Variant of the switch: every message kind forwarded as a kick.
ipc_reader_dispatch_any_kind(m) == <<m.q>>

\* ipc_reader's switch on the message type: the queues it notifies, in order.
ipc_reader_dispatch(m) ==
    IF m.type = "KICK" THEN <<m.q>> ELSE <<>>

\* Variant of the receive-failure branch: the read handler left registered.
ipc_reader_recv_failed_keeps_handler ==
    LET fd == ipc_get_fd IN
    /\ handler' = handler
    /\ fdtab' = [fdtab EXCEPT ![fd] = "shut"]
    /\ link' = set_link_status(1)
    /\ linkCalls' = [linkCalls EXCEPT !.down = @ + 1]
    /\ ts' = ipc_set_connector(ts, cinterval)
    /\ armLog' = armLog \cup {[by |-> "ipc_reader", delay |-> ArmedDelay(ts'), ci |-> cinterval]}
    /\ last' = [op |-> "ipc_reader", res |-> "recv_fail",
                trace |-> <<"ipc_client_recv", "shutdown", "set_link_down",
                            "ipc_set_connector">>,
                notify |-> <<>>, recv |-> NoMsg]

\* Variant of the receive-failure branch: the link status left as it is.
ipc_reader_recv_failed_no_link_down ==
    LET fd == ipc_get_fd IN
    /\ handler' = [handler EXCEPT ![fd] = "NULL"]
    /\ fdtab' = [fdtab EXCEPT ![fd] = "shut"]
    /\ link' = link
    /\ linkCalls' = linkCalls
    /\ ts' = ipc_set_connector(ts, cinterval)
    /\ armLog' = armLog \cup {[by |-> "ipc_reader", delay |-> ArmedDelay(ts'), ci |-> cinterval]}
    /\ last' = [op |-> "ipc_reader", res |-> "recv_fail",
                trace |-> <<"ipc_client_recv", "qemu_set_fd_handler", "shutdown",
                            "ipc_set_connector">>,
                notify |-> <<>>, recv |-> NoMsg]

\* ipc_reader when ipc_client_recv fails: deregister, shut down, link down, re-arm.
ipc_reader_recv_failed ==
    LET fd == ipc_get_fd IN
    /\ handler' = [handler EXCEPT ![fd] = "NULL"]
    /\ fdtab' = [fdtab EXCEPT ![fd] = "shut"]
    /\ link' = set_link_status(1)
    /\ linkCalls' = [linkCalls EXCEPT !.down = @ + 1]
    /\ ts' = ipc_set_connector(ts, cinterval)
    /\ armLog' = armLog \cup {[by |-> "ipc_reader", delay |-> ArmedDelay(ts'), ci |-> cinterval]}
    /\ last' = [op |-> "ipc_reader", res |-> "recv_fail",
                trace |-> <<"ipc_client_recv", "qemu_set_fd_handler", "shutdown",
                            "set_link_down", "ipc_set_connector">>,
                notify |-> <<>>, recv |-> NoMsg]

\* The read callback, called by the event loop when a descriptor it is
\* registered on is readable; m is what ipc_client_recv yields.
ipc_reader(m) ==
    /\ nReads < MaxReads
    /\ \E f \in FDs :
        /\ handler[f] = "ipc_reader"
        /\ fdtab[f] \in {"conn", "shut"}
        /\ fdtab[f] = "shut" => ~m.ok
    /\ nReads' = nReads + 1
    /\ IF ipc = "NULL"
       THEN /\ last' = [op |-> "ipc_reader", res |-> "no_session", trace |-> NoTrace,
                        notify |-> <<>>, recv |-> NoMsg]
            /\ UNCHANGED <<handler, fdtab, link, ts, armLog, linkCalls>>
       ELSE IF ~m.ok
       THEN ipc_reader_recv_failed
       ELSE /\ last' = [op |-> "ipc_reader",
                        res |-> IF m.type = "KICK" THEN "kick" ELSE "invalid",
                        trace |-> IF m.type = "KICK"
                                  THEN <<"ipc_client_recv", "virtio_notify">>
                                  ELSE <<"ipc_client_recv">>,
                        notify |-> ipc_reader_dispatch(m), recv |-> m]
            /\ UNCHANGED <<handler, fdtab, link, ts, armLog, linkCalls>>
    /\ UNCHANGED <<cinterval, ipc, node, ram_fd, now, faults, released, initCalled, tInit,
                   attempts>>

\* -------------------------------------------------------------- ipc_exit

\* What each release in ipc_exit does to a resource that is not there to release.
exit_faults(fd) ==
    (IF ts.st # "new" THEN {"qemu_free_timer"} ELSE {})
    \cup (IF fdtab[fd] = "closed" THEN {"close"} ELSE {})
    \cup (IF node.st # "live" THEN {"free"} ELSE {})

\* Variant of the releases: vdev->ipc not cleared.
ipc_exit_release_keeps_ipc ==
    LET fd == ipc_get_fd IN
    /\ ts' = [st |-> "freed", pending |-> {}]
    /\ handler' = [handler EXCEPT ![fd] = "NULL"]
    /\ fdtab' = [fdtab EXCEPT ![fd] = "closed"]
    /\ link' = set_link_status(1)
    /\ linkCalls' = [linkCalls EXCEPT !.down = @ + 1]
    /\ node' = [node EXCEPT !.st = "freed"]
    /\ ipc' = ipc
    /\ released' = [timer |-> released.timer + 1, fd |-> released.fd + 1,
                    node |-> released.node + 1]
    /\ faults' = faults \cup exit_faults(fd)
    /\ last' = [op |-> "ipc_exit", res |-> "released",
                trace |-> <<"qemu_del_timer", "qemu_free_timer", "qemu_set_fd_handler",
                            "close", "set_link_down", "free">>,
                notify |-> <<>>, recv |-> NoMsg]

\* Variant of the releases: the descriptor closed with the read handler still
\* registered on it.
ipc_exit_release_keeps_handler ==
    LET fd == ipc_get_fd IN
    /\ ts' = [st |-> "freed", pending |-> {}]
    /\ handler' = handler
    /\ fdtab' = [fdtab EXCEPT ![fd] = "closed"]
    /\ link' = set_link_status(1)
    /\ linkCalls' = [linkCalls EXCEPT !.down = @ + 1]
    /\ node' = [node EXCEPT !.st = "freed"]
    /\ ipc' = "NULL"
    /\ released' = [timer |-> released.timer + 1, fd |-> released.fd + 1,
                    node |-> released.node + 1]
    /\ faults' = faults \cup exit_faults(fd)
    /\ last' = [op |-> "ipc_exit", res |-> "released",
                trace |-> <<"qemu_del_timer", "qemu_free_timer", "close",
                            "set_link_down", "free">>,
                notify |-> <<>>, recv |-> NoMsg]

\* Variant of the releases: the timer neither cancelled nor freed.
ipc_exit_release_keeps_timer ==
    LET fd == ipc_get_fd IN
    /\ ts' = ts
    /\ handler' = [handler EXCEPT ![fd] = "NULL"]
    /\ fdtab' = [fdtab EXCEPT ![fd] = "closed"]
    /\ link' = set_link_status(1)
    /\ linkCalls' = [linkCalls EXCEPT !.down = @ + 1]
    /\ node' = [node EXCEPT !.st = "freed"]
    /\ ipc' = "NULL"
    /\ released' = [timer |-> released.timer, fd |-> released.fd + 1,
                    node |-> released.node + 1]
    /\ faults' = faults \cup (exit_faults(fd) \ {"qemu_free_timer"})
    /\ last' = [op |-> "ipc_exit", res |-> "released",
                trace |-> <<"qemu_set_fd_handler", "close", "set_link_down", "free">>,
                notify |-> <<>>, recv |-> NoMsg]

\* ipc_exit past its guard: release the timer, the handler, the descriptor, the
\* node, and clear vdev->ipc.
ipc_exit_release ==
    LET fd == ipc_get_fd IN
    /\ ts' = [st |-> "freed", pending |-> {}]
    /\ handler' = [handler EXCEPT ![fd] = "NULL"]
    /\ fdtab' = [fdtab EXCEPT ![fd] = "closed"]
    /\ link' = set_link_status(1)
    /\ linkCalls' = [linkCalls EXCEPT !.down = @ + 1]
    /\ node' = [node EXCEPT !.st = "freed"]
    /\ ipc' = "NULL"
    /\ released' = [timer |-> released.timer + 1, fd |-> released.fd + 1,
                    node |-> released.node + 1]
    /\ faults' = faults \cup exit_faults(fd)
    /\ last' = [op |-> "ipc_exit", res |-> "released",
                trace |-> <<"qemu_del_timer", "qemu_free_timer", "qemu_set_fd_handler",
                            "close", "set_link_down", "free">>,
                notify |-> <<>>, recv |-> NoMsg]

ipc_exit ==
    /\ initCalled
    /\ IF ipc = "NULL"
       THEN /\ last' = [op |-> "ipc_exit", res |-> "no_session", trace |-> NoTrace,
                        notify |-> <<>>, recv |-> NoMsg]
            /\ UNCHANGED <<ipc, node, ts, fdtab, handler, link, faults, released, linkCalls>>
       ELSE ipc_exit_release
    /\ UNCHANGED <<cinterval, ram_fd, now, initCalled, tInit, attempts, nReads, armLog>>

\* ------------------------------------------------------------------ time

\* Time passes, by TickMs or up to the pending fire; the timer callback may run
\* late, never early.  The clock's origin is the ipc_init call.
Tick(t) ==
    /\ initCalled
    /\ t > now
    /\ t <= MaxTime
    /\ t = now + TickMs \/ t \in ts.pending
    /\ now' = t
    /\ UNCHANGED <<progVars, histVars>>

\* The device as ipc_init finds it: zeroed ipc fields, no descriptor of this
\* module open, and a link status this module has not written yet (either value).
Init ==
    /\ cinterval = 0
    /\ ipc = "NULL"
    /\ node = [st |-> "none", fd |-> -1]
    /\ ts = [st |-> "none", pending |-> {}]
    /\ ram_fd \in {-1, RamFd}
    /\ fdtab = [f \in FDs |-> IF f = ram_fd THEN "ram" ELSE "closed"]
    /\ handler = [f \in FDs |-> "NULL"]
    /\ link \in {"UP", "DOWN"}
    /\ now = 0
    /\ faults = {}
    /\ released = [timer |-> 0, fd |-> 0, node |-> 0]
    /\ initCalled = FALSE
    /\ tInit = -1
    /\ attempts = <<>>
    /\ nReads = 0
    /\ armLog = {}
    /\ linkCalls = [up |-> 0, down |-> 0]
    /\ last = [op |-> "none", res |-> "none", trace |-> NoTrace, notify |-> <<>>, recv |-> NoMsg]
    /\ peer = "any"

Next ==
    \/ \E ci \in CIntervals, e \in InitOutcomes : ipc_init(ci, e) /\ UNCHANGED peer
    \/ \E o \in Outcomes : ipc_connect_to_server(o) /\ UNCHANGED peer
    \/ \E m \in Msgs : ipc_reader(m) /\ UNCHANGED peer
    \/ ipc_exit /\ UNCHANGED peer
    \/ \E t \in 1 .. MaxTime : Tick(t) /\ UNCHANGED peer

Spec == Init /\ [][Next]_vars

\* ------------------------------------------------------------- liveness

\* From some point on the server accepts every handshake.
PeerSettles ==
    /\ initCalled
    /\ peer = "any"
    /\ peer' = "accepting"
    /\ UNCHANGED <<progVars, histVars, now>>

\* What an attempt can come to given the server: against an accepting server
\* every step succeeds, unless no descriptor is left for ipc_socket.
PeerOutcomes ==
    IF peer = "accepting"
    THEN IF ipc_socket(fdtab) < 0 THEN {"socket_fail"} ELSE {"ok"}
    ELSE Outcomes

\* The event loop runs the timer callback once the fire is due.
TimerFires == \E o \in PeerOutcomes : ipc_connect_to_server(o) /\ UNCHANGED peer

\* The clock moves on, to the times Tick allows.
TimePasses == \E t \in {now + TickMs} \cup ts.pending : Tick(t) /\ UNCHANGED peer

LiveNext ==
    \/ \E ci \in CIntervals, e \in InitOutcomes : ipc_init(ci, e) /\ UNCHANGED peer
    \/ TimerFires
    \/ \E m \in Msgs : ipc_reader(m) /\ UNCHANGED peer
    \/ ipc_exit /\ UNCHANGED peer
    \/ TimePasses
    \/ PeerSettles

\* The clock advances and the event loop calls a due timer callback.
LiveSpec ==
    /\ Init
    /\ [][LiveNext]_vars
    /\ WF_vars(TimePasses)
    /\ WF_vars(TimerFires)

\* ------------------------------------------------------ derived notions

Registered == {f \in FDs : handler[f] = "ipc_reader"}
Connected == Registered # {}
Armed == ts.st = "new" /\ ts.pending # {}
SessionExists == ipc = "node"
TornDown == released.node > 0

\* The session state of the specification, read off the code's state: no state
\* field exists in the code.
SessionState ==
    IF SessionExists
    THEN IF Connected THEN "CONNECTED" ELSE "DISCONNECTED"
    ELSE IF TornDown THEN "REMOVED" ELSE "UNINITIALIZED"

\* ipc_init was called and failed: there is no Session and none was torn down.
InitFailed == initCalled /\ ipc = "NULL" /\ ~TornDown

AllFailed == \A k \in 1 .. Len(attempts) : ~attempts[k].ok
AttemptFailed == last.op = "ipc_connect_to_server" /\ last.res # "ok"
RecvFailed == last.op = "ipc_reader" /\ last.res = "recv_fail"

\* Call a comes before call b in a callback's trace.
Before(a, b, tr) ==
    \E i, j \in 1 .. Len(tr) : i < j /\ tr[i] = a /\ tr[j] = b

\* ---------------------------------------------------------------- claims

\* C1: from ipc_init on, between callbacks, LinkStatus is UP iff the read
\* callback is registered (CONNECTED); and every callback that leaves CONNECTED
\* (a receive failure, ipc_exit) leaves LinkStatus DOWN, ipc_reader setting it
\* before it re-arms the retry timer.
C1_LinkUpIffConnected ==
    /\ (SessionExists \/ TornDown) => ((link = "UP") <=> Connected)
    /\ RecvFailed =>
        /\ link = "DOWN"
        /\ Before("set_link_down", "ipc_set_connector", last.trace)
    /\ (last.op = "ipc_exit" /\ last.res = "released") => link = "DOWN"

\* C2: from ipc_init until the first successful handshake LinkStatus is DOWN,
\* however many attempts fail, and the first successful handshake is the one
\* set-UP call made so far.
C2_DownUntilFirstHandshake ==
    /\ (SessionExists /\ AllFailed) => link = "DOWN"
    /\ (SessionExists /\ ~AllFailed /\ linkCalls.down = 0) =>
            (link = "UP" /\ linkCalls.up = 1)

\* C3: at most one read callback is registered; after a successful handshake
\* exactly one, on the session's descriptor; after a receive failure, a failed
\* connection attempt or ipc_exit, none.
C3_OneReadCallback ==
    /\ Cardinality(Registered) <= 1
    /\ (last.op = "ipc_connect_to_server" /\ last.res = "ok") => Registered = {node.fd}
    /\ (RecvFailed \/ AttemptFailed \/ last.op = "ipc_exit") => Registered = {}

\* C3 witness: a reconnect after a teardown left exactly one callback registered.
C3_Witness ==
    /\ last.op = "ipc_connect_to_server" /\ last.res = "ok"
    /\ linkCalls.down >= 1
    /\ Cardinality(Registered) = 1

\* C4: ipc_exit is idempotent: a call that finds no Session, and a call that
\* follows another ipc_exit, changes nothing; after ipc_exit the Session slot is
\* empty, no release has been made twice and none was invalid.
C4_ExitIdempotent ==
    /\ [][(last'.op = "ipc_exit" /\ (ipc = "NULL" \/ last.op = "ipc_exit"))
            => UNCHANGED progVars]_vars
    /\ [](last.op = "ipc_exit" =>
            /\ ipc = "NULL"
            /\ faults = {}
            /\ released.timer <= 1 /\ released.fd <= 1 /\ released.node <= 1)

\* C4 witness: ipc_exit called twice before any connection attempt, the second
\* call finding no Session.
C4_Witness ==
    /\ last.op = "ipc_exit" /\ last.res = "no_session"
    /\ released = [timer |-> 1, fd |-> 1, node |-> 1]
    /\ attempts = <<>>

\* C5: every arming of the retry timer, by ipc_init, by a failed attempt or by a
\* receive failure, uses a delay of cinterval seconds.
C5_DelayIsInterval ==
    \A e \in armLog : e.delay % MsPerSec = 0 /\ e.delay \div MsPerSec = e.ci

\* C6 as claimed: with cinterval 1 and the peer absent, the first attempt is made
\* at initialization (within the first interval after ipc_init).
C6_FirstAttemptAtInit ==
    (cinterval = 1 /\ AllFailed /\ Len(attempts) >= 1)
        => attempts[1].at < tInit + MsPerSec

\* C6 amended: with cinterval 1 and the peer absent, ipc_init makes no attempt;
\* the first attempt is due 1 s after ipc_init and each later one 1 s after the
\* attempt before it, and no attempt runs before it is due.
C6_AttemptsOnePerInterval ==
    (SessionExists /\ cinterval = 1 /\ AllFailed) =>
        /\ (last.op = "ipc_init" => attempts = <<>>)
        /\ \A k \in 1 .. Len(attempts) :
            /\ attempts[k].due =
                  (IF k = 1 THEN tInit ELSE attempts[k - 1].at) + MsPerSec
            /\ attempts[k].at >= attempts[k].due

\* C6 witness: two failed attempts with cinterval 1, at 1 s and 2 s after ipc_init.
C6_Witness ==
    /\ SessionExists /\ cinterval = 1 /\ AllFailed
    /\ Len(attempts) = 2
    /\ attempts[1].at = tInit + MsPerSec
    /\ attempts[2].at = tInit + 2 * MsPerSec

\* C7 as claimed: between callbacks, once ipc_init has been called, at most one
\* fire is outstanding; the timer is armed whenever the session state is
\* UNINITIALIZED or DISCONNECTED and not armed while it is CONNECTED.
C7_ArmedWhenNotConnected ==
    initCalled =>
        /\ Cardinality(ts.pending) <= 1
        /\ SessionState \in {"UNINITIALIZED", "DISCONNECTED"} => Armed
        /\ SessionState = "CONNECTED" => ~Armed

\* C7 amended: at most one fire is outstanding; the timer is armed whenever a
\* Session exists and is DISCONNECTED, not armed while CONNECTED, and does not
\* exist while UNINITIALIZED (before ipc_init, after a failed ipc_init); it is
\* released only by ipc_exit and never armed again afterwards.
C7_ArmedWhenDisconnected ==
    /\ [](/\ Cardinality(ts.pending) <= 1
          /\ SessionState = "DISCONNECTED" => Armed
          /\ SessionState = "CONNECTED" => ~Armed
          /\ SessionState = "UNINITIALIZED" => ts.st = "none"
          /\ SessionState = "REMOVED" => (ts.st = "freed" /\ ts.pending = {}))
    /\ [][(ts.st # "freed" /\ ts'.st = "freed") => last'.op = "ipc_exit"]_vars
    /\ [][ts.st = "freed" => ts' = ts]_vars

\* C7 witness: DISCONNECTED again after a connection was lost, timer armed.
C7_Witness ==
    /\ SessionState = "DISCONNECTED" /\ Armed
    /\ RecvFailed

\* C8: a receive failure while CONNECTED deregisters the read callback, takes
\* LinkStatus from UP to DOWN with one call, and re-arms the retry timer; read
\* events are processed only while the callback is registered, so none follows
\* on that connection; only a successful attempt registers the callback again,
\* setting LinkStatus UP with one call.
C8_DropAndReconnect ==
    /\ [][(nReads' # nReads /\ last'.res = "recv_fail") =>
            /\ Connected /\ link = "UP"
            /\ ~Connected' /\ link' = "DOWN"
            /\ linkCalls'.down = linkCalls.down + 1 /\ linkCalls'.up = linkCalls.up
            /\ ts'.st = "new" /\ ts'.pending = {now + DelayMs(cinterval)}]_vars
    /\ [][nReads' # nReads => Connected]_vars
    /\ [][(~Connected /\ Connected') =>
            /\ last'.op = "ipc_connect_to_server" /\ last'.res = "ok"
            /\ Registered' = {node.fd}
            /\ link' = "UP"
            /\ linkCalls'.up = linkCalls.up + 1 /\ linkCalls'.down = linkCalls.down]_vars
    /\ [][(link = "DOWN" /\ link' = "UP") => (~Connected /\ Connected')]_vars

\* C8 witness: connected, dropped by a receive failure, connected again.
C8_Witness ==
    /\ last.op = "ipc_connect_to_server" /\ last.res = "ok"
    /\ linkCalls = [up |-> 2, down |-> 1]
    /\ link = "UP" /\ Connected /\ nReads >= 1

\* C9: every transient failure (a failed attempt at any step, a receive failure)
\* leaves the session DISCONNECTED with no read callback, LinkStatus DOWN and
\* the retry timer armed, every arming being at cinterval seconds.
C9_FailuresConverge ==
    (AttemptFailed \/ RecvFailed) =>
        /\ SessionState = "DISCONNECTED"
        /\ Registered = {}
        /\ link = "DOWN"
        /\ Armed
        /\ \A e \in armLog : e.delay \div MsPerSec = e.ci

\* C10 as claimed: whenever opening a socket fails, in ipc_init or in an attempt,
\* the retry timer ends up armed; initialization is aborted only when the guest
\* memory is not found or the Session cannot be allocated.
C10_SocketFailureRetried ==
    /\ last.res = "socket_fail" => Armed
    /\ (last.op = "ipc_init" /\ ~SessionExists) => last.res \in {"no_ram", "malloc_fail"}

\* C10 amended: a socket open failure in a connection attempt leaves the Session
\* in place with the retry timer armed for the next attempt; in ipc_init it
\* aborts initialization like the other init_client failures (guest memory not
\* found, allocation failure, node initialisation failure): no Session, no
\* timer, no attempt.
C10_SocketFailureInAttemptRetried ==
    /\ (last.op = "ipc_connect_to_server" /\ last.res = "socket_fail") =>
            (SessionExists /\ Armed /\ ~Connected)
    /\ (last.op = "ipc_init" /\ last.res # "ok") =>
            (~SessionExists /\ ts.st = "none" /\ attempts = <<>>)
    /\ (last.op = "ipc_init" /\ last.res = "ok") => (SessionExists /\ Armed)
    /\ ts.st = "none" => attempts = <<>>

\* C10 witness: an attempt failed to open its socket and the timer is armed again.
C10_Witness ==
    /\ last.op = "ipc_connect_to_server" /\ last.res = "socket_fail"
    /\ Armed

\* C11: after a fatal ipc_init (init_client returned an error) no Session exists,
\* no retry timer was created or armed, no attempt and no read callback ever
\* runs, no set_link_status call is ever made, and every later step, ipc_exit
\* included, leaves the program state as it is.
C11_FatalInitLeavesNoChannel ==
    /\ []((last.op = "ipc_init" /\ last.res # "ok") => InitFailed)
    /\ [](InitFailed =>
            /\ ts = [st |-> "none", pending |-> {}]
            /\ attempts = <<>> /\ nReads = 0
            /\ linkCalls = [up |-> 0, down |-> 0]
            /\ Registered = {}
            /\ released = [timer |-> 0, fd |-> 0, node |-> 0]
            /\ faults = {})
    /\ [][InitFailed => (InitFailed' /\ ts' = ts /\ link' = link /\ ipc' = ipc
                          /\ handler' = handler /\ fdtab' = fdtab)]_vars

\* C11 witness: ipc_init failed for want of a socket, time passed, and a later
\* ipc_exit found no Session.
C11_Witness ==
    /\ InitFailed
    /\ last.op = "ipc_exit" /\ last.res = "no_session"
    /\ now > tInit
    /\ ram_fd # -1

\* C20: after a failed ipc_init, whichever step of init_client failed, no
\* descriptor opened by init_client is still open and no Session memory is still
\* allocated.
C20_FailedInitLeavesNothing ==
    InitFailed =>
        /\ \A f \in FDs : fdtab[f] \in {"closed", "ram"}
        /\ node.st # "live"

\* C12: a kick received for queue Q while CONNECTED makes exactly one queue
\* notification, for Q, and changes nothing else: the read callback stays
\* registered, LinkStatus stays UP, the timer stays unarmed, the descriptor open.
C12_KickNotifiesOnce ==
    [][(nReads' # nReads /\ last'.recv.type = "KICK") =>
            /\ Connected
            /\ last'.notify = <<last'.recv.q>>
            /\ UNCHANGED progVars
            /\ Registered' = {node.fd} /\ link' = "UP" /\ ~Armed'
            /\ fdtab'[node.fd] = "conn"
            /\ attempts' = attempts /\ linkCalls' = linkCalls]_vars

\* C12 witness: a kick for a queue other than queue 0 was forwarded, the session
\* still CONNECTED.
C12_Witness ==
    /\ last.op = "ipc_reader" /\ last.recv.type = "KICK" /\ last.recv.q > 0
    /\ last.notify = <<last.recv.q>>
    /\ Connected /\ link = "UP"

\* C13: a message of any kind other than kick, received while CONNECTED, makes
\* no queue notification and changes nothing: the session stays CONNECTED, the
\* read callback registered, LinkStatus UP, the timer unarmed.
C13_OtherKindIgnored ==
    [][(nReads' # nReads /\ last'.recv.ok /\ last'.recv.type # "KICK") =>
            /\ Connected
            /\ last'.notify = <<>>
            /\ UNCHANGED progVars
            /\ Registered' = {node.fd} /\ link' = "UP" /\ ~Armed'
            /\ attempts' = attempts /\ linkCalls' = linkCalls]_vars

\* C13 witness: a message of another kind was received and the session is still
\* CONNECTED.
C13_Witness ==
    /\ last.op = "ipc_reader" /\ last.res = "invalid" /\ last.recv.ok
    /\ last.notify = <<>>
    /\ Connected /\ link = "UP"

HandshakeOrder ==
    <<"ipc_socket", "ipc_connect", "ipc_client_init_sequence", "dup2",
      "ipc_client_reconfigure", "set_link_up", "qemu_set_fd_handler">>

InHandshake(x) == \E i \in 1 .. Len(HandshakeOrder) : HandshakeOrder[i] = x

\* How many handshake steps an attempt with result r ran, the failing one included.
StepsRun(r) ==
    CASE r = "socket_fail" -> 1
      [] r = "connect_fail" -> 2
      [] r = "init_fail" -> 3
      [] r = "dup2_fail" -> 4
      [] r = "reconf_fail" -> 5
      [] OTHER -> 7

OkAttempts == {k \in 1 .. Len(attempts) : attempts[k].ok}

\* C16: an attempt takes the handshake steps in the order open, connect, init
\* sequence, dup2, reconfigure and stops at the first that fails; a failure at
\* any step fails the attempt; LinkStatus is set UP and the read callback
\* registered last, only in an attempt all of whose steps succeeded.
C16_HandshakeOrder ==
    /\ last.op = "ipc_connect_to_server" =>
        LET hs == SelectSeq(last.trace, InHandshake) IN
        /\ hs = SubSeq(HandshakeOrder, 1, Len(hs))
        /\ Len(hs) = StepsRun(last.res)
        /\ last.res # "ok" =>
            (~Connected /\ ~attempts[Len(attempts)].ok /\ Armed)
        /\ last.res = "ok" =>
            (Connected /\ link = "UP" /\ attempts[Len(attempts)].ok)
    /\ linkCalls.up = Cardinality(OkAttempts)
    /\ Connected => OkAttempts # {}

\* C16 witness: an attempt that failed at its last step, reconfigure, after the
\* descriptor swap, with no set-UP call made so far.
C16_Witness ==
    /\ last.op = "ipc_connect_to_server" /\ last.res = "reconf_fail"
    /\ fdtab[node.fd] = "shut"
    /\ linkCalls.up = 0 /\ ~Connected

\* C17: attempts run one at a time, each fired by the single pending timer, and
\* never while the read callback is registered; the callback is registered only
\* by an attempt that succeeded, and is deregistered before a re-attempt is
\* scheduled and before teardown closes the descriptor; whenever the stable
\* descriptor is closed or replaced, no handler is registered on it, and when it
\* is closed the timer is cancelled first.
C17_DeregisterBeforeClose ==
    /\ [](Cardinality(ts.pending) <= 1)
    /\ [](~(Connected /\ Armed))
    /\ [][attempts' # attempts =>
            /\ Len(attempts') = Len(attempts) + 1
            /\ Registered = {}
            /\ \E d \in ts.pending : d <= now]_vars
    /\ [][(Registered = {} /\ Registered' # {}) =>
            (last'.op = "ipc_connect_to_server" /\ last'.res = "ok"
             /\ last'.trace[Len(last'.trace)] = "qemu_set_fd_handler")]_vars
    /\ [](RecvFailed =>
            /\ Before("qemu_set_fd_handler", "shutdown", last.trace)
            /\ Before("qemu_set_fd_handler", "ipc_set_connector", last.trace))
    /\ []((last.op = "ipc_exit" /\ last.res = "released") =>
            /\ Before("qemu_del_timer", "close", last.trace)
            /\ Before("qemu_set_fd_handler", "close", last.trace))
    /\ [][(SessionExists /\ fdtab'[node.fd] # fdtab[node.fd]) =>
            CASE fdtab'[node.fd] = "closed" ->
                    ts'.pending = {} /\ Registered' = {}
              [] fdtab'[node.fd] = "shut" /\ last'.op = "ipc_reader" ->
                    Registered' = {}
              [] OTHER ->
                    Registered = {} /\ attempts' # attempts]_vars

\* C17 witness: a re-attempt after a connection was dropped, started with the
\* callback deregistered, replaced the descriptor and registered the callback again.
C17_Witness ==
    /\ last.op = "ipc_connect_to_server" /\ last.res = "ok"
    /\ Len(attempts) >= 2 /\ attempts[1].ok
    /\ linkCalls.down >= 1
    /\ Registered = {node.fd}

\* C18: the read callback is only ever registered on, and deregistered from, the
\* descriptor number init_client stored in the node: that number is set by
\* ipc_init and never changes while the Session exists, every successful
\* handshake leaves the connection at that number, and no handler of any other
\* descriptor is touched.
C18_StableDescriptor ==
    /\ [](Registered \subseteq {node.fd})
    /\ [][node'.fd # node.fd => (last'.op = "ipc_init" /\ ~SessionExists)]_vars
    /\ [][handler' # handler =>
            \A f \in FDs \ {node.fd} : handler'[f] = handler[f]]_vars
    /\ []((last.op = "ipc_connect_to_server" /\ last.res = "ok") =>
            (fdtab[node.fd] = "conn" /\ Registered = {node.fd}))

\* C18 witness: after a drop, a second successful handshake registered the
\* callback on the number assigned at ipc_init.
C18_Witness ==
    /\ last.op = "ipc_connect_to_server" /\ last.res = "ok"
    /\ Cardinality(OkAttempts) >= 2
    /\ node.fd = ipc_socket([f \in FDs |-> IF f = RamFd THEN fdtab[f] ELSE "closed"])
    /\ handler[node.fd] = "ipc_reader" /\ fdtab[node.fd] = "conn"

\* The descriptors of this module that are open.
OpenFds == {f \in FDs \ {RamFd} : fdtab[f] \in {"sock", "conn", "shut"}}

\* C19: between callbacks a Session owns exactly one open descriptor, the stable
\* one, whatever the attempts did; after ipc_exit of a Session it owns none.
C19_NoDescriptorLeak ==
    /\ SessionExists => OpenFds = {node.fd}
    /\ TornDown => OpenFds = {}

\* C19 witness: attempts that failed before and after the descriptor swap and one
\* that succeeded, with only the stable descriptor open.
C19_Witness ==
    /\ SessionExists
    /\ Len(attempts) = 3
    /\ ~attempts[1].ok /\ attempts[2].ok /\ ~attempts[3].ok
    /\ last.res \in {"connect_fail", "init_fail", "dup2_fail"}
    /\ OpenFds = {node.fd}

Disconnected == SessionExists /\ ~Connected

\* No pending fire lies beyond the modelled time.
FireWithinHorizon == \A d \in ts.pending : d <= MaxTime

\* C15: while the Session is not torn down, every DISCONNECTED state is followed
\* by a further connection attempt, whatever the number of attempts made so
\* far; and once the server accepts every handshake, a DISCONNECTED session
\* becomes CONNECTED with LinkStatus UP.
C15_AutomaticRecovery ==
    /\ \A n \in 0 .. MaxAttempts - 1 :
        (Disconnected /\ Len(attempts) = n /\ FireWithinHorizon)
            ~> (Len(attempts) > n \/ TornDown)
    /\ (peer = "accepting" /\ Disconnected /\ Len(attempts) < MaxAttempts
            /\ FireWithinHorizon)
            ~> ((Connected /\ link = "UP") \/ TornDown)

\* C15 witness: a failed attempt, then, the server accepting, a successful one, a
\* dropped connection and a successful reconnect.
C15_Witness ==
    /\ peer = "accepting"
    /\ Len(attempts) = 3
    /\ ~attempts[1].ok /\ attempts[2].ok /\ attempts[3].ok
    /\ linkCalls.down = 1
    /\ Connected /\ link = "UP"

====
